---------------------------- MODULE Spec2Model ----------------------------
(***************************************************************************)
(* A model of broker-threading.cpp: a fixed array of order books, each     *)
(* with a buy list and a sell list (OrderList, a growable array) and a     *)
(* volatile bool inTransaction used as a home-made spin flag.  Broker      *)
(* threads call addOrder(orderType, ticker, quantity, price) concurrently. *)
(*                                                                         *)
(* Granularity.  inTransaction is a plain volatile bool, so the test at    *)
(* line 172 and the store at line 173 are two separate memory accesses and *)
(* nothing in the code makes the section behind them exclusive.  Threads   *)
(* are therefore interleaved at the level of the C++ statements: each      *)
(* action below is one statement (or one read-only scan) of the source,    *)
(* executed atomically.  Finer interleavings exist in a real build; every  *)
(* behaviour of this model is one of them.                                 *)
(*                                                                         *)
(* Prices are doubles in the source and are only compared and printed;     *)
(* they are modelled as integers (whole currency units).                   *)
(*                                                                         *)
(* History variables (not program state): submitted, the orders handed to  *)
(* addOrder so far, in call order; trades, the "Trade executed" lines      *)
(* printed so far, each with the two entries it was computed from.  The    *)
(* field seq of an order is its position in submitted; it stands in for    *)
(* orderId (line 90), which the program draws at random and never reads.   *)
(* The field arrival of an entry is the number of the append that put it   *)
(* into its list (0 before that): the order of arrival in the book.        *)
(***************************************************************************)
EXTENDS Integers, Sequences, FiniteSets

(***************************************************************************)
(* Bounds of the model.                                                    *)
(***************************************************************************)
NumThreads == 2

MaxOrders == 3

(***************************************************************************)
(* Program constants.                                                      *)
(***************************************************************************)
NUM_TICKERS == 1024

INITIAL_CAPACITY == 10

BUY == "BUY"

SELL == "SELL"

Threads == 1..NumThreads

(***************************************************************************)
(* Ticker symbols are strings of character codes (TickerString).           *)
(* "TICKER" is 84 73 67 75 69 82; the digits '0'..'9' are 48..57.          *)
(***************************************************************************)
TICKER12 == <<84, 73, 67, 75, 69, 82, 49, 50>>

TICKER21 == <<84, 73, 67, 75, 69, 82, 50, 49>>

TICKER0 == <<84, 73, 67, 75, 69, 82, 48>>

(* A symbol outside ASCII: the two bytes C3 A9 (a UTF-8 e-acute).  ticker[i] *)
(* is a char, and whether char is signed is the build's choice: the bytes  *)
(* read as -61, -87 where it is signed (x86) and as 195, 169 where it is   *)
(* not (ARM).                                                              *)
EAcuteSigned == <<-61, -87>>

EAcuteUnsigned == <<195, 169>>

Tickers == {TICKER12, TICKER21, TICKER0, EAcuteSigned, EAcuteUnsigned}

RECURSIVE SumCodes(_)
SumCodes(s) == IF s = <<>> THEN 0 ELSE Head(s) + SumCodes(Tail(s))

RECURSIVE WeightedCodes(_, _)
WeightedCodes(s, i) ==
    IF s = <<>> THEN 0 ELSE i * Head(s) + WeightedCodes(Tail(s), i + 1)

(* Mutant: a hash that weighs each character by its position, so that      *)
(* symbols with the same characters in another order are told apart.       *)
PositionalIndex(ticker) == WeightedCodes(ticker, 1) % NUM_TICKERS

(* The operator % of C++ on ints: the remainder has the dividend's sign.    *)
Rem(a, n) == IF a >= 0 THEN a % n ELSE -((-a) % n)

getOrderBookIndex(ticker) == Rem(SumCodes(ticker), NUM_TICKERS)

(* The indices of orderBooks[] (new OrderBook[NUM_TICKERS]).               *)
BookIndices == 0..(NUM_TICKERS - 1)

(* The order books the modelled tickers resolve to (a part of orderBooks[]). *)
Books == {getOrderBookIndex(t) : t \in Tickers} \cap BookIndices

(***************************************************************************)
(* Order and OrderList.                                                    *)
(***************************************************************************)
(* Order(): the default-constructed entry an untouched array slot holds.   *)
DefaultOrder ==
    [orderType |-> BUY, ticker |-> <<>>, quantity |-> 0, price |-> 0, seq |-> 0,
     arrival |-> 0]

MakeOrder(type, tkr, qty, prc, n) ==
    [orderType |-> type, ticker |-> tkr, quantity |-> qty, price |-> prc, seq |-> n,
     arrival |-> 0]

(* OrderList(): orders holds the slots written so far (slot i is           *)
(* orders[i+1]); the slots behind them, up to capacity, hold Order().      *)
EmptyList == [orders |-> <<>>, capacity |-> INITIAL_CAPACITY, size |-> 0]

(* operator[]: no bounds check; a slot at or beyond size holds whatever    *)
(* was left there.                                                         *)
At(list, index) ==
    IF index + 1 <= Len(list.orders) THEN list.orders[index + 1] ELSE DefaultOrder

getSize(list) == list.size

isEmpty(list) == list.size = 0

(* orders[index] = o                                                       *)
Store(list, index, o) ==
    LET n == IF index + 1 > Len(list.orders) THEN index + 1 ELSE Len(list.orders)
    IN  [list EXCEPT !.orders =
            [i \in 1..n |-> IF i = index + 1 THEN o
                            ELSE IF i <= Len(list.orders) THEN list.orders[i]
                            ELSE DefaultOrder]]

(* resize(newCapacity): the first size entries are copied to a new array.  *)
resize(list, newCapacity) ==
    [list EXCEPT !.orders = SubSeq(list.orders, 1, list.size),
                 !.capacity = newCapacity]

append(list, o) ==
    LET l == IF list.size >= list.capacity THEN resize(list, list.capacity * 2)
             ELSE list
    IN  [Store(l, l.size, o) EXCEPT !.size = l.size + 1]

RECURSIVE ShiftDown(_, _)
(* for (i = index; i < size - 1; i++) orders[i] = orders[i + 1];          *)
ShiftDown(list, i) ==
    IF i < list.size - 1
    THEN ShiftDown(Store(list, i, At(list, i + 1)), i + 1)
    ELSE list

removeAt(list, index) ==
    IF index < 0 \/ index >= list.size
    THEN list
    ELSE [ShiftDown(list, index) EXCEPT !.size = list.size - 1]

(***************************************************************************)
(* The two scans of matchOrders.                                           *)
(***************************************************************************)
RECURSIVE BestBuyFrom(_, _, _)
(* lines 196-203: the first entry with the highest price.                  *)
BestBuyFrom(list, i, best) ==
    IF i >= getSize(list) THEN best
    ELSE IF At(list, i).price > At(list, best).price
         THEN BestBuyFrom(list, i + 1, i)
         ELSE BestBuyFrom(list, i + 1, best)

RECURSIVE BestSellFrom(_, _, _)
(* lines 206-213: the first entry with the lowest price.                   *)
BestSellFrom(list, i, best) ==
    IF i >= getSize(list) THEN best
    ELSE IF At(list, i).price < At(list, best).price
         THEN BestSellFrom(list, i + 1, i)
         ELSE BestSellFrom(list, i + 1, best)

FindBestBuy(list) == BestBuyFrom(list, 1, 0)

FindBestSell(list) == BestSellFrom(list, 1, 0)

(* Mutant: matching also stops when the best prices are equal.             *)
NoMatchOrEqual(bestBuyPrice, bestSellPrice) == bestBuyPrice <= bestSellPrice

(* line 216: "if no match is possible, exit"                               *)
NoMatch(bestBuyPrice, bestSellPrice) == bestBuyPrice < bestSellPrice

(* lines 225-226                                                           *)
TradeQty(buyQuantity, sellQuantity) ==
    IF buyQuantity < sellQuantity THEN buyQuantity ELSE sellQuantity

(* Mutant: the trade is priced at the buy entry's price.                   *)
TradePriceOfBuy(buyOrder, sellOrder) == buyOrder.price

(* line 227: "Trade at the sell price"                                     *)
TradePrice(buyOrder, sellOrder) == sellOrder.price

(***************************************************************************)
(* Workloads.  A workload is the script of a run: its k-th element is the  *)
(* set of orders the k-th call of addOrder may be made with, and its       *)
(* length is the number of calls of the run.                               *)
(***************************************************************************)
Template(type, tkr, qty, prc) ==
    [orderType |-> type, ticker |-> tkr, quantity |-> qty, price |-> prc]

(* Any order of the simulation (lines 316-326), over two quantities and    *)
(* two prices.                                                             *)
GeneralOrders ==
    {Template(ty, TICKER12, q, p) : ty \in {BUY, SELL}, q \in {1, 2}, p \in {1, 2}}

General(n) == [k \in 1..n |-> GeneralOrders]

(* Buy 100 @ 50, then Sell 60 @ 45.                                        *)
ScenarioA ==
    <<{Template(BUY, TICKER12, 100, 50)}, {Template(SELL, TICKER12, 60, 45)}>>

(* Buy 10 @ 20, Buy 10 @ 21, then Sell 15 @ 19.                            *)
ScenarioB ==
    <<{Template(BUY, TICKER12, 10, 20)}, {Template(BUY, TICKER12, 10, 21)},
      {Template(SELL, TICKER12, 15, 19)}>>

(* Two buys at one price, a better buy, then a sell that crosses them all. *)
ScenarioRace ==
    <<{Template(BUY, TICKER12, 1, 1)}, {Template(BUY, TICKER12, 1, 1)},
      {Template(BUY, TICKER12, 1, 2)}, {Template(SELL, TICKER12, 2, 1)}>>

(* Calls the simulation never makes: quantity <= 0 or price <= 0.          *)
InvalidOrders ==
    {Template(BUY, TICKER12, -1, 2), Template(SELL, TICKER12, 1, 0),
     Template(SELL, TICKER12, 1, 1)}

ValidWorkloads == {General(MaxOrders), ScenarioA, ScenarioB, ScenarioRace}

(* The runs the liveness property is checked on.                           *)
FairWorkloads == {General(MaxOrders - 1), ScenarioA, ScenarioB, ScenarioRace}

AnyInputWorkloads == {[k \in 1..MaxOrders |-> InvalidOrders]}

(* Orders for any symbol a caller may pass, ASCII or not.                  *)
ResolveOrders ==
    {Template(ty, tk, 1, 1) :
        ty \in {BUY, SELL}, tk \in {TICKER12, TICKER0, EAcuteSigned, EAcuteUnsigned}}

ResolveWorkloads == {[k \in 1..MaxOrders |-> ResolveOrders]}

(* Orders for three of the simulation's symbols, two of which collide.     *)
TickerOrders ==
    {Template(ty, tk, 1, 1) : ty \in {BUY, SELL}, tk \in {TICKER12, TICKER21, TICKER0}}

TickerWorkloads == {[k \in 1..MaxOrders |-> TickerOrders]}

(***************************************************************************)
(* State.                                                                  *)
(***************************************************************************)
VARIABLES
    buyOrders,      \* buyOrders[b]: OrderBook::buyOrders of orderBooks[b]
    sellOrders,     \* sellOrders[b]: OrderBook::sellOrders of orderBooks[b]
    inTransaction,  \* inTransaction[b]: OrderBook::inTransaction
    pc,             \* pc[t]: where thread t stands in addOrder / matchOrders
    frame,          \* frame[t]: the locals of thread t's call
    trades,         \* history: the trades printed so far
    submitted,      \* history: the orders handed to addOrder so far
    overlap,        \* history: some call began while another was in progress
    workload        \* the run's workload

vars ==
    <<buyOrders, sellOrders, inTransaction, pc, frame, trades, submitted, overlap,
      workload>>

NoFrame ==
    [order |-> DefaultOrder, idx |-> 0, bestBuyIndex |-> 0, bestSellIndex |-> 0,
     tradeQty |-> 0]

(* initOrderBooks: every book has two empty lists and inTransaction false. *)
InitBooks ==
    /\ buyOrders = [b \in Books |-> EmptyList]
    /\ sellOrders = [b \in Books |-> EmptyList]
    /\ inTransaction = [b \in Books |-> FALSE]
    /\ pc = [t \in Threads |-> "idle"]
    /\ frame = [t \in Threads |-> NoFrame]
    /\ trades = <<>>
    /\ submitted = <<>>
    /\ overlap = FALSE

Init == InitBooks /\ workload \in ValidWorkloads

InitAnyInput == InitBooks /\ workload \in AnyInputWorkloads

InitFair == InitBooks /\ workload \in FairWorkloads

InitResolve == InitBooks /\ workload \in ResolveWorkloads

InitTickers == InitBooks /\ workload \in TickerWorkloads

(***************************************************************************)
(* addOrder (lines 278-282), up to the call of OrderBook::addOrder.        *)
(* orderBooks[idx] with idx outside the array is undefined behaviour: the  *)
(* model does not follow such a call any further (pc "undefined").         *)
(***************************************************************************)
AddOrderCall(t) ==
    /\ pc[t] = "idle"
    /\ Len(submitted) < Len(workload)
    /\ \E o \in workload[Len(submitted) + 1] :
          /\ frame' = [frame EXCEPT ![t] =
                 [NoFrame EXCEPT
                     !.idx = getOrderBookIndex(o.ticker),
                     !.order = MakeOrder(o.orderType, o.ticker, o.quantity, o.price,
                                         Len(submitted) + 1)]]
          /\ submitted' = Append(submitted,
                 Template(o.orderType, o.ticker, o.quantity, o.price))
    /\ overlap' = (overlap \/ \E u \in Threads \ {t} : pc[u] # "idle")
    /\ pc' = [pc EXCEPT ![t] = IF frame'[t].idx \in BookIndices THEN "spin"
                                ELSE "undefined"]
    /\ UNCHANGED <<buyOrders, sellOrders, inTransaction, trades, workload>>

(* lines 171-178: one turn of the spin loop: the test of line 172, and the *)
(* yield of line 177 when the flag is set.                                 *)
SpinWait(t) ==
    /\ pc[t] = "spin"
    /\ IF ~inTransaction[frame[t].idx]
       THEN pc' = [pc EXCEPT ![t] = "set"]
       ELSE pc' = pc
    /\ UNCHANGED <<buyOrders, sellOrders, inTransaction, frame, trades, submitted,
                   overlap, workload>>

(* Mutant: one flag for all books: the store sets every book's flag.       *)
SetEveryInTransaction(t) ==
    /\ pc[t] = "set"
    /\ inTransaction' = [b \in Books |-> TRUE]
    /\ pc' = [pc EXCEPT ![t] = "append"]
    /\ UNCHANGED <<buyOrders, sellOrders, frame, trades, submitted, overlap, workload>>

(* line 173: inTransaction = true; break                                   *)
SetInTransaction(t) ==
    /\ pc[t] = "set"
    /\ inTransaction' = [inTransaction EXCEPT ![frame[t].idx] = TRUE]
    /\ pc' = [pc EXCEPT ![t] = "append"]
    /\ UNCHANGED <<buyOrders, sellOrders, frame, trades, submitted, overlap, workload>>

(* The orders handed to addOrder and not appended yet.                     *)
Unappended == {u \in Threads : pc[u] \in {"spin", "set", "append"}}

(* lines 181-185                                                           *)
AppendOrder(t) ==
    /\ pc[t] = "append"
    /\ LET b == frame[t].idx
           o == [frame[t].order EXCEPT
                    !.arrival = Len(submitted) - Cardinality(Unappended) + 1]
       IN  IF o.orderType = BUY
           THEN /\ buyOrders' = [buyOrders EXCEPT ![b] = append(@, o)]
                /\ UNCHANGED sellOrders
           ELSE /\ sellOrders' = [sellOrders EXCEPT ![b] = append(@, o)]
                /\ UNCHANGED buyOrders
    /\ pc' = [pc EXCEPT ![t] = "scan"]
    /\ UNCHANGED <<inTransaction, frame, trades, submitted, overlap, workload>>

(* Mutant: when a side of the book is empty the call returns at once,      *)
(* without passing line 189.                                               *)
MatchScanEarlyReturn(t) ==
    /\ pc[t] = "scan"
    /\ LET b == frame[t].idx
           bi == FindBestBuy(buyOrders[b])
           si == FindBestSell(sellOrders[b])
       IN  IF isEmpty(buyOrders[b]) \/ isEmpty(sellOrders[b])
           THEN /\ pc' = [pc EXCEPT ![t] = "idle"]
                /\ frame' = [frame EXCEPT ![t] = NoFrame]
           ELSE IF NoMatch(At(buyOrders[b], bi).price, At(sellOrders[b], si).price)
           THEN /\ pc' = [pc EXCEPT ![t] = "release"]
                /\ UNCHANGED frame
           ELSE /\ pc' = [pc EXCEPT ![t] = "trade"]
                /\ frame' = [frame EXCEPT ![t].bestBuyIndex = bi,
                                          ![t].bestSellIndex = si]
    /\ UNCHANGED <<buyOrders, sellOrders, inTransaction, trades, submitted, overlap, workload>>

(* lines 194-218: the loop test, the two scans and the exit test.          *)
MatchScan(t) ==
    /\ pc[t] = "scan"
    /\ LET b == frame[t].idx
           bi == FindBestBuy(buyOrders[b])
           si == FindBestSell(sellOrders[b])
       IN  IF isEmpty(buyOrders[b]) \/ isEmpty(sellOrders[b])
           THEN /\ pc' = [pc EXCEPT ![t] = "release"]
                /\ UNCHANGED frame
           ELSE IF NoMatch(At(buyOrders[b], bi).price, At(sellOrders[b], si).price)
           THEN /\ pc' = [pc EXCEPT ![t] = "release"]
                /\ UNCHANGED frame
           ELSE /\ pc' = [pc EXCEPT ![t] = "trade"]
                /\ frame' = [frame EXCEPT ![t].bestBuyIndex = bi,
                                          ![t].bestSellIndex = si]
    /\ UNCHANGED <<buyOrders, sellOrders, inTransaction, trades, submitted, overlap, workload>>

(* lines 221-230: the references are taken, tradeQty and tradePrice are    *)
(* computed and the trade is printed.                                      *)
MatchTrade(t) ==
    /\ pc[t] = "trade"
    /\ LET b == frame[t].idx
           buyOrder == At(buyOrders[b], frame[t].bestBuyIndex)
           sellOrder == At(sellOrders[b], frame[t].bestSellIndex)
           qty == TradeQty(buyOrder.quantity, sellOrder.quantity)
       IN  /\ frame' = [frame EXCEPT ![t].tradeQty = qty]
           /\ trades' = Append(trades,
                  [ticker |-> buyOrder.ticker, quantity |-> qty,
                   price |-> TradePrice(buyOrder, sellOrder),
                   buy |-> buyOrder, sell |-> sellOrder])
    /\ pc' = [pc EXCEPT ![t] = "deductBuy"]
    /\ UNCHANGED <<buyOrders, sellOrders, inTransaction, submitted, overlap, workload>>

Deduct(list, index, qty) ==
    Store(list, index, [At(list, index) EXCEPT !.quantity = @ - qty])

(* line 233: buyOrder.quantity -= tradeQty                                 *)
MatchDeductBuy(t) ==
    /\ pc[t] = "deductBuy"
    /\ buyOrders' = [buyOrders EXCEPT ![frame[t].idx] =
           Deduct(@, frame[t].bestBuyIndex, frame[t].tradeQty)]
    /\ pc' = [pc EXCEPT ![t] = "deductSell"]
    /\ UNCHANGED <<sellOrders, inTransaction, frame, trades, submitted, overlap, workload>>

(* line 234: sellOrder.quantity -= tradeQty                                *)
MatchDeductSell(t) ==
    /\ pc[t] = "deductSell"
    /\ sellOrders' = [sellOrders EXCEPT ![frame[t].idx] =
           Deduct(@, frame[t].bestSellIndex, frame[t].tradeQty)]
    /\ pc' = [pc EXCEPT ![t] = "removeBuy"]
    /\ UNCHANGED <<buyOrders, inTransaction, frame, trades, submitted, overlap, workload>>

(* Mutant: the test reads >= 0, so entries with remaining > 0 go as well.   *)
RemoveIfNotNegative(list, index) ==
    IF At(list, index).quantity >= 0 THEN removeAt(list, index) ELSE list

(* lines 237-239 / 240-242: "remove orders that have been completely filled" *)
RemoveIfFilled(list, index) ==
    IF At(list, index).quantity <= 0 THEN removeAt(list, index) ELSE list

MatchRemoveBuy(t) ==
    /\ pc[t] = "removeBuy"
    /\ buyOrders' = [buyOrders EXCEPT ![frame[t].idx] =
           RemoveIfFilled(@, frame[t].bestBuyIndex)]
    /\ pc' = [pc EXCEPT ![t] = "removeSell"]
    /\ UNCHANGED <<sellOrders, inTransaction, frame, trades, submitted, overlap, workload>>

MatchRemoveSell(t) ==
    /\ pc[t] = "removeSell"
    /\ sellOrders' = [sellOrders EXCEPT ![frame[t].idx] =
           RemoveIfFilled(@, frame[t].bestSellIndex)]
    /\ pc' = [pc EXCEPT ![t] = "scan"]
    /\ frame' = [frame EXCEPT ![t].bestBuyIndex = 0, ![t].bestSellIndex = 0,
                              ![t].tradeQty = 0]
    /\ UNCHANGED <<buyOrders, inTransaction, trades, submitted, overlap, workload>>

(* Mutant: the call returns without resetting inTransaction.               *)
ReturnHoldingFlag(t) ==
    /\ pc[t] = "release"
    /\ pc' = [pc EXCEPT ![t] = "idle"]
    /\ frame' = [frame EXCEPT ![t] = NoFrame]
    /\ UNCHANGED <<buyOrders, sellOrders, inTransaction, trades, submitted, overlap,
                   workload>>

(* line 189: inTransaction = false, and the return of both addOrder's.     *)
Release(t) ==
    /\ pc[t] = "release"
    /\ inTransaction' = [inTransaction EXCEPT ![frame[t].idx] = FALSE]
    /\ pc' = [pc EXCEPT ![t] = "idle"]
    /\ frame' = [frame EXCEPT ![t] = NoFrame]
    /\ UNCHANGED <<buyOrders, sellOrders, trades, submitted, overlap, workload>>

Step(t) ==
    \/ AddOrderCall(t)
    \/ SpinWait(t)
    \/ SetInTransaction(t)
    \/ AppendOrder(t)
    \/ MatchScan(t)
    \/ MatchTrade(t)
    \/ MatchDeductBuy(t)
    \/ MatchDeductSell(t)
    \/ MatchRemoveBuy(t)
    \/ MatchRemoveSell(t)
    \/ Release(t)

Next == \E t \in Threads : Step(t)

Spec == Init /\ [][Next]_vars

SpecAnyInput == InitAnyInput /\ [][Next]_vars

SpecResolve == InitResolve /\ [][Next]_vars

SpecTickers == InitTickers /\ [][Next]_vars

(* Every thread that can take a step eventually takes one (the operating  *)
(* system schedules every runnable thread).                                *)
Fairness == \A t \in Threads : WF_vars(Step(t))

FairSpec == InitFair /\ [][Next]_vars /\ Fairness

(* The behaviours in which no call begins while another is in progress.    *)
NextSerial == Next /\ ~overlap'

SpecSerial == Init /\ [][NextSerial]_vars

(***************************************************************************)
(* Notions the properties are stated in.                                   *)
(***************************************************************************)
(* The entries of a list: slots 0 .. size-1.                               *)
Live(list) == {At(list, i) : i \in 0..(list.size - 1)}

Resting(b) == Live(buyOrders[b]) \cup Live(sellOrders[b])

AllIdle == \A t \in Threads : pc[t] = "idle"

(* Thread t has been handed order n and has not appended it yet.           *)
Carries(t, n) == pc[t] \in {"spin", "set", "append"} /\ frame[t].order.seq = n

(* The remaining quantity of the n-th submitted order: the quantity of its *)
(* entry while it waits to be appended or rests in its book, 0 otherwise.  *)
Remaining(n) ==
    LET b == getOrderBookIndex(submitted[n].ticker)
    IN  IF \E t \in Threads : Carries(t, n)
        THEN submitted[n].quantity
        ELSE IF \E o \in Resting(b) : o.seq = n
        THEN (CHOOSE o \in Resting(b) : o.seq = n).quantity
        ELSE 0

RECURSIVE TradedUpTo(_, _)
(* The sum of the quantities of the first k trades that order n is in.     *)
TradedUpTo(n, k) ==
    IF k = 0 THEN 0
    ELSE TradedUpTo(n, k - 1)
         + (IF trades[k].buy.seq = n \/ trades[k].sell.seq = n
            THEN trades[k].quantity ELSE 0)

Traded(n) == TradedUpTo(n, Len(trades))

(* A thread has printed a trade and not yet deducted it from both entries. *)
Settling == \E t \in Threads : pc[t] \in {"deductBuy", "deductSell"}

(***************************************************************************)
(* C1 (as claimed): quantity conservation per order.  At every point where *)
(* no trade is printed but not yet deducted, for every submitted order,    *)
(* initial quantity = remaining quantity + sum of the quantities of the    *)
(* trades it took part in, under any interleaving of the broker threads.   *)
(***************************************************************************)
C1_QuantityConservation ==
    ~Settling =>
        \A n \in 1..Len(submitted) : submitted[n].quantity = Remaining(n) + Traded(n)

(***************************************************************************)
(* C2 (as claimed): no negative remaining.  The quantity of every order    *)
(* resting in a book is >= 0 in every reachable state.                     *)
(***************************************************************************)
C2_NoNegativeRemaining ==
    \A b \in Books : \A o \in Resting(b) : o.quantity >= 0

(***************************************************************************)
(* C3 (as claimed): crossing.  Every trade printed is between a buy entry  *)
(* and a sell entry with buy price >= sell price when it is executed.      *)
(***************************************************************************)
C3_Crossing ==
    \A k \in 1..Len(trades) :
        trades[k].quantity > 0 =>
            /\ trades[k].buy.orderType = BUY
            /\ trades[k].sell.orderType = SELL
            /\ trades[k].buy.price >= trades[k].sell.price

(***************************************************************************)
(* C4.  A trade is passive-priced when its price is the limit price of the *)
(* entry that was submitted first (the one already resting).               *)
(***************************************************************************)
PassivePrice(tr) == IF tr.buy.seq < tr.sell.seq THEN tr.buy.price ELSE tr.sell.price

(* Both orders of scenario A were submitted, one call after the other, to  *)
(* an empty book, and both calls have returned.                            *)
ScenarioADone ==
    workload = ScenarioA /\ Len(submitted) = Len(workload) /\ ~overlap /\ AllIdle

(* C4 (as claimed): every trade is priced at the resting order's limit     *)
(* price; after Buy 100 @ 50 and then Sell 60 @ 45 there is one trade of   *)
(* 60 at 50, the buy rests with 40 and the sell is filled.                 *)
C4_PassivePrice ==
    /\ \A k \in 1..Len(trades) : trades[k].price = PassivePrice(trades[k])
    /\ ScenarioADone =>
           /\ Len(trades) = 1
           /\ trades[1].quantity = 60
           /\ trades[1].price = 50
           /\ Remaining(1) = 40
           /\ Remaining(2) = 0

(* C4 (amended): every trade is priced at the limit price of its sell      *)
(* entry, whichever side came in last; after Buy 100 @ 50 and then Sell    *)
(* 60 @ 45 there is one trade of 60 at 45, the buy rests with 40 and the   *)
(* sell is gone from the book.                                             *)
C4_SellPrice ==
    /\ \A k \in 1..Len(trades) : trades[k].price = trades[k].sell.price
    /\ ScenarioADone =>
           /\ Len(trades) = 1
           /\ trades[1].quantity = 60
           /\ trades[1].price = 45
           /\ trades[1].buy.seq = 1 /\ trades[1].sell.seq = 2
           /\ Remaining(1) = 40
           /\ Remaining(2) = 0
           /\ isEmpty(sellOrders[getOrderBookIndex(TICKER12)])

(* Scenario A has run to its end.                                          *)
C4_Witness == ScenarioADone /\ Len(trades) = 1

(***************************************************************************)
(* C5, C6.  The trade a thread executes, seen from the order it brought.   *)
(***************************************************************************)
LastTrade == trades'[Len(trades')]

(* Thread t prints a trade of a positive quantity.                         *)
Executes(t) == pc[t] = "trade" /\ pc'[t] = "deductBuy" /\ LastTrade.quantity > 0

(* The entries with remaining > 0 on the other side of t's order.          *)
Opposite(t) ==
    LET b == frame[t].idx
    IN  IF frame[t].order.orderType = SELL
        THEN {o \in Live(buyOrders[b]) : o.quantity > 0}
        ELSE {o \in Live(sellOrders[b]) : o.quantity > 0}

(* Those of them that cross t's order.                                     *)
Candidates(t) ==
    LET in == frame[t].order
    IN  IF in.orderType = SELL
        THEN {o \in Opposite(t) : o.price >= in.price}
        ELSE {o \in Opposite(t) : o.price <= in.price}

(* The entry of the other side that the trade tr of thread t is against.   *)
Against(t, tr) == IF frame[t].order.orderType = SELL THEN tr.buy ELSE tr.sell

Better(t, o, x) ==
    IF frame[t].order.orderType = SELL THEN o.price > x.price ELSE o.price < x.price

(* C5 (as claimed): price priority.  A trade is never against an entry     *)
(* while a better-priced candidate with remaining > 0 rests in the book.   *)
C5_PricePriority ==
    [][\A t \in Threads : Executes(t) =>
          \A o \in Candidates(t) : ~Better(t, o, Against(t, LastTrade))]_vars

(* C6 (as claimed): time priority.  A trade against an entry at the best   *)
(* price is never executed while an entry of the same price that arrived   *)
(* in the book earlier rests there with remaining > 0.                     *)
C6_TimePriority ==
    [][\A t \in Threads : Executes(t) =>
          LET x == Against(t, LastTrade)
          IN  (\A o \in Opposite(t) : ~Better(t, o, x)) =>
                  \A o \in Opposite(t) : o.price = x.price => o.arrival >= x.arrival]_vars

(***************************************************************************)
(* C7 (as claimed): a call whose quantity or price is <= 0 changes neither *)
(* list of its book, no resting order and no trade: no step of such a call *)
(* changes buyOrders, sellOrders or trades.                                *)
(***************************************************************************)
Invalid(o) == o.quantity <= 0 \/ o.price <= 0

C7_InvalidRejected ==
    [][\A t \in Threads :
          (pc[t] # "idle" /\ Invalid(frame[t].order) /\ pc'[t] # pc[t]) =>
              UNCHANGED <<buyOrders, sellOrders, trades>>]_vars

(***************************************************************************)
(* C8 (as claimed): aggregate conservation.  When every call has returned, *)
(* the initial quantities of the submitted orders add up to the remaining  *)
(* quantities of the resting orders plus twice the traded quantities.      *)
(***************************************************************************)
RECURSIVE SumInitial(_)
SumInitial(k) == IF k = 0 THEN 0 ELSE SumInitial(k - 1) + submitted[k].quantity

RECURSIVE SumTrades(_)
SumTrades(k) == IF k = 0 THEN 0 ELSE SumTrades(k - 1) + trades[k].quantity

RECURSIVE SumList(_, _)
SumList(list, k) == IF k = 0 THEN 0 ELSE SumList(list, k - 1) + At(list, k - 1).quantity

RECURSIVE SumBooks(_)
SumBooks(bs) ==
    IF bs = {} THEN 0
    ELSE LET b == CHOOSE x \in bs : TRUE
         IN  SumList(buyOrders[b], buyOrders[b].size)
             + SumList(sellOrders[b], sellOrders[b].size) + SumBooks(bs \ {b})

C8_AggregateConservation ==
    AllIdle =>
        SumInitial(Len(submitted)) = SumBooks(Books) + 2 * SumTrades(Len(trades))

Holds(list, n) == \E i \in 0..(list.size - 1) : At(list, i).seq = n

Position(list, n) == CHOOSE i \in 0..(list.size - 1) : At(list, i).seq = n

Seqs(list) == {o.seq : o \in Live(list)}

(* C10 (as claimed): insertion-only collections.  An order that is in a    *)
(* list stays in it, at the same place relative to the others.             *)
InsertionOnly(old, new) ==
    /\ \A n \in Seqs(old) : Holds(new, n)
    /\ \A n, m \in Seqs(old) :
           Position(old, n) < Position(old, m) => Position(new, n) < Position(new, m)

RemovesOnlyFilled(old, new) ==
    /\ \A n \in Seqs(old) : ~Holds(new, n) => At(old, Position(old, n)).quantity <= 0
    /\ \A n, m \in Seqs(old) \cap Seqs(new) :
           Position(old, n) < Position(old, m) => Position(new, n) < Position(new, m)
    /\ \A n \in Seqs(old) \cap Seqs(new) :
           LET o == At(old, Position(old, n))
               x == At(new, Position(new, n))
           IN  o.orderType = x.orderType /\ o.price = x.price /\ o.ticker = x.ticker
    /\ \A n \in Seqs(new) \ Seqs(old) : Position(new, n) = new.size - 1

C11_ResolveInRange ==
    [][\A t \in Threads :
          (pc[t] = "idle" /\ pc'[t] # "idle") =>
              /\ frame'[t].idx = getOrderBookIndex(frame'[t].order.ticker)
              /\ \A u \in Threads :
                     (pc[u] # "idle" /\ frame[u].order.ticker = frame'[t].order.ticker)
                         => frame[u].idx = frame'[t].idx
              /\ UNCHANGED <<buyOrders, sellOrders, inTransaction>>
              /\ frame'[t].idx \in BookIndices]_vars

(***************************************************************************)
(* C12: hash collisions cross-match.  TICKER12 and TICKER21 are distinct   *)
(* symbols that resolve to the same order book, and a buy order for one is *)
(* traded against a crossing sell order for the other: after Buy 1 @ 1 of  *)
(* TICKER12 and then Sell 1 @ 1 of TICKER21, submitted one call after the  *)
(* other to empty books, there is exactly one trade, between these two.    *)
(***************************************************************************)
CollisionDone ==
    /\ submitted = <<Template(BUY, TICKER12, 1, 1), Template(SELL, TICKER21, 1, 1)>>
    /\ ~overlap
    /\ AllIdle

C12_CollisionCrossMatch ==
    /\ TICKER12 # TICKER21
    /\ getOrderBookIndex(TICKER12) = getOrderBookIndex(TICKER21)
    /\ CollisionDone =>
           /\ Len(trades) = 1
           /\ trades[1].quantity = 1
           /\ trades[1].buy.ticker = TICKER12
           /\ trades[1].sell.ticker = TICKER21

(* The two orders for the colliding symbols have been submitted and a      *)
(* trade between them is printed.                                          *)
C12_Witness ==
    /\ CollisionDone
    /\ \E k \in 1..Len(trades) :
           trades[k].buy.ticker = TICKER12 /\ trades[k].sell.ticker = TICKER21

(***************************************************************************)
(* C13 (as claimed): mutual exclusion of the spin flag.  For any one book, *)
(* at most one thread at a time is between setting inTransaction to true   *)
(* (line 173) and resetting it to false (line 189), that is, in the append *)
(* and matchOrders section.                                                *)
(***************************************************************************)
InSection(t) ==
    pc[t] \in {"append", "scan", "trade", "deductBuy", "deductSell", "removeBuy",
               "removeSell", "release"}

C13_MutualExclusion ==
    \A t, u \in Threads :
        (t # u /\ InSection(t) /\ InSection(u)) => frame[t].idx # frame[u].idx

(***************************************************************************)
(* C14 (as claimed): trade quantity bound.  Every trade printed has a      *)
(* quantity > 0 that is the minimum of the remaining quantities of its two *)
(* entries, and when a thread decrements an entry by the quantity of its   *)
(* trade, that quantity does not exceed what the entry has remaining.      *)
(***************************************************************************)
Min(a, b) == IF a < b THEN a ELSE b

C14_TradeQuantityBound ==
    [][\A t \in Threads :
          LET b == frame[t].idx
          IN  /\ (pc[t] = "trade" /\ pc'[t] = "deductBuy") =>
                     /\ LastTrade.quantity > 0
                     /\ LastTrade.quantity =
                            Min(LastTrade.buy.quantity, LastTrade.sell.quantity)
              /\ (pc[t] = "deductBuy" /\ pc'[t] = "deductSell") =>
                     frame[t].tradeQty <= At(buyOrders[b], frame[t].bestBuyIndex).quantity
              /\ (pc[t] = "deductSell" /\ pc'[t] = "removeBuy") =>
                     frame[t].tradeQty <=
                         At(sellOrders[b], frame[t].bestSellIndex).quantity]_vars

(***************************************************************************)
(* C15 (as claimed): monotone order lifecycle.  In every step the          *)
(* remaining quantity of every order in a book stays or decreases, an      *)
(* order that is filled (remaining 0) stays filled, and an order whose     *)
(* remaining quantity is 0 is in no trade printed afterwards.              *)
(***************************************************************************)
Lifecycle(old, new) ==
    \A n \in Seqs(old) \cap Seqs(new) :
        LET o == At(old, Position(old, n)).quantity
            x == At(new, Position(new, n)).quantity
        IN  x <= o /\ (o = 0 => x = 0)

C15_MonotoneLifecycle ==
    [][/\ \A b \in Books :
             /\ buyOrders'[b] # buyOrders[b] => Lifecycle(buyOrders[b], buyOrders'[b])
             /\ sellOrders'[b] # sellOrders[b] =>
                    Lifecycle(sellOrders[b], sellOrders'[b])
       /\ \A n \in 1..Len(submitted) :
             (Remaining(n) = 0 /\ Len(trades') > Len(trades)) =>
                 (LastTrade.buy.seq # n /\ LastTrade.sell.seq # n)]_vars

(***************************************************************************)
(* C16: the book is uncrossed at rest.  Whenever no thread is inside       *)
(* addOrder for a book, the book holds no buy entry and sell entry, both   *)
(* with remaining > 0, such that buy price >= sell price.                  *)
(***************************************************************************)
AtRest(b) == \A t \in Threads : pc[t] = "idle" \/ frame[t].idx # b

Crossed(b) ==
    \E x \in Live(buyOrders[b]) : \E y \in Live(sellOrders[b]) :
        x.quantity > 0 /\ y.quantity > 0 /\ x.price >= y.price

C16_UncrossedAtRest == \A b \in Books : AtRest(b) => ~Crossed(b)

(* A book at rest after a trade, with a buy and a sell resting that do not *)
(* cross.                                                                  *)
C16_Witness ==
    \E b \in Books :
        /\ AtRest(b)
        /\ Len(trades) > 0
        /\ \E x \in Live(buyOrders[b]) : \E y \in Live(sellOrders[b]) :
               x.quantity > 0 /\ y.quantity > 0 /\ x.price < y.price

(***************************************************************************)
(* C17.  The entries that have arrived in a book so far: those resting in  *)
(* it and those that were in a trade (an entry leaves only after a trade). *)
(***************************************************************************)
Arrived ==
    LET resting == UNION {Resting(b) : b \in Books}
        traded == UNION {{trades[k].buy, trades[k].sell} : k \in 1..Len(trades)}
    IN  {o \in resting \cup traded : o.arrival > 0}

(* Entry o is an order of the other side, in the same book, that crosses   *)
(* the order n.                                                            *)
CounterOrder(o, n) ==
    /\ getOrderBookIndex(o.ticker) = getOrderBookIndex(n.ticker)
    /\ IF n.orderType = BUY
       THEN o.orderType = SELL /\ o.price <= n.price
       ELSE o.orderType = BUY /\ o.price >= n.price

(* Thread t has appended its order, and no counter-order of it has         *)
(* arrived in the book so far, before it or after it.                      *)
NoCounterOrder(t) ==
    /\ InSection(t) /\ pc[t] # "append"
    /\ \A o \in Arrived : ~CounterOrder(o, frame[t].order)

RestsInFull(n) ==
    LET b == getOrderBookIndex(n.ticker)
        list == IF n.orderType = BUY THEN buyOrders[b] ELSE sellOrders[b]
    IN  \E o \in Live(list) : o.seq = n.seq /\ o.quantity = n.quantity

(* C17 (as claimed): no counter-order, no trade.  A call whose order (of   *)
(* positive quantity and price) has no crossing order on the other side of *)
(* its book executes no trade, and when it returns its order rests on its  *)
(* own side with its full quantity.                                        *)
C17_NoCounterOrderNoTrade ==
    [][\A t \in Threads :
          (NoCounterOrder(t) /\ ~Invalid(frame[t].order)) =>
              /\ ~(pc[t] = "trade" /\ pc'[t] = "deductBuy")
              /\ (pc[t] = "release" /\ pc'[t] = "idle") =>
                     RestsInFull(frame[t].order)]_vars

(***************************************************************************)
(* C18: books are independent.  A step of a call of addOrder changes the   *)
(* buy list, the sell list and the flag of no book but the one its ticker  *)
(* resolves to, and a thread that finds its book's flag set is waiting for *)
(* a thread that works on that same book.                                  *)
(***************************************************************************)
(* The book of the call thread t is in, or enters in this step.            *)
BookOf(t) == IF pc[t] = "idle" THEN frame'[t].idx ELSE frame[t].idx

BookChanges(b) ==
    \/ buyOrders'[b] # buyOrders[b]
    \/ sellOrders'[b] # sellOrders[b]
    \/ inTransaction'[b] # inTransaction[b]

WaitsOnOwnBook(t) ==
    (pc[t] = "spin" /\ inTransaction[frame[t].idx]) =>
        \E u \in Threads \ {t} : InSection(u) /\ frame[u].idx = frame[t].idx

C18_BooksIndependent ==
    [][/\ \A b \in Books :
             BookChanges(b) => \E t \in Threads : pc'[t] # pc[t] /\ BookOf(t) = b
       /\ \A t \in Threads : WaitsOnOwnBook(t) /\ WaitsOnOwnBook(t)']_vars

(* Two threads are at work behind the spin loop on two different books,    *)
(* each book with its flag set.                                            *)
C18_Witness ==
    \E t, u \in Threads :
        /\ InSection(t) /\ InSection(u)
        /\ frame[t].idx # frame[u].idx
        /\ inTransaction[frame[t].idx] /\ inTransaction[frame[u].idx]
        /\ pc[t] = "trade"

(***************************************************************************)
(* C19: the spin flag is released at rest.  Whenever no thread is in       *)
(* OrderBook::addOrder on a book, the book's inTransaction is false, so a  *)
(* later call on the book is not held up by a call that has returned.      *)
(***************************************************************************)
C19_FlagReleasedAtRest == \A b \in Books : AtRest(b) => ~inTransaction[b]

(* A book is at rest after two overlapping calls on it and a trade, while  *)
(* a thread holds the flag of another book.                                *)
C19_Witness ==
    \E b \in Books :
        /\ AtRest(b)
        /\ overlap
        /\ \E k \in 1..Len(trades) : getOrderBookIndex(trades[k].buy.ticker) = b
        /\ \E t \in Threads : InSection(t) /\ inTransaction[frame[t].idx]

=============================================================================
